---- MODULE Spec2Model ----
(***************************************************************************)
(* Model of include-fixer/IncludeFixer.cpp: the Action that receives the   *)
(* Sema callbacks (CorrectTypo, MaybeDiagnoseMissingCompleteType), its     *)
(* query() step against the symbol index, the context builder              *)
(* (getIncludeFixerContext, minimizeInclude) and the factory's             *)
(* runInvocation, which creates one Action per file.                       *)
(*                                                                         *)
(* Strings are sequences of one-character strings, so that concatenation,  *)
(* trimming and the character scan of ExtendNestedNameSpecifier are        *)
(* computed as the code computes them.                                     *)
(***************************************************************************)
EXTENDS Integers, Sequences, FiniteSets, TLC

VARIABLES
    NDEBUG,                  \* build configuration: TRUE when assert() is compiled out
    indexDB,                 \* the symbols the SymbolIndexManager knows (set of ranks)
    MinimizeIncludePaths,    \* Action::MinimizeIncludePaths (factory option)
    pc,                      \* "idle" | "parsing" | "aborted"
    nfiles,                  \* number of runInvocation calls started on the factory
    ncb,                     \* number of callbacks delivered so far, over all files
    QuerySymbol,             \* Action::QuerySymbol
    SymbolScopedQualifiers,  \* Action::SymbolScopedQualifiers
    QuerySymbolRange,        \* Action::QuerySymbolRange
    MatchedSymbols,          \* Action::MatchedSymbols
    fatal,                   \* Compiler.getDiagnostics().hasFatalErrorOccurred()
    Context,                 \* IncludeFixerActionFactory::Context (output reference)
    ret,                     \* value returned by the last runInvocation
    lastCb,                  \* observation of the last callback delivered
    firstSuccess,            \* history: arguments of the first query of this file that found symbols
    lastAccepted,            \* history: arguments of the last query of this file that passed the guards
    lastS,                   \* history: the scope chain of the last CorrectTypo that built a qualifier
    buf,                     \* the source buffer of the main file
    op,                      \* unit runs: the function applied ("none" when none was)
    arg,                     \* unit runs: its arguments
    res,                     \* unit runs: its result
    consulted                \* unit runs: the collaborators it called, in order

vars == <<NDEBUG, indexDB, MinimizeIncludePaths, pc, nfiles, ncb, QuerySymbol,
          SymbolScopedQualifiers, QuerySymbolRange, MatchedSymbols, fatal,
          Context, ret, lastCb, firstSuccess, lastAccepted, lastS, buf, op, arg,
          res, consulted>>

unitVars == <<op, arg, res, consulted>>

actionVars == <<QuerySymbol, SymbolScopedQualifiers, QuerySymbolRange, MatchedSymbols>>

-----------------------------------------------------------------------------
(* Bounds of the model. *)

MaxFiles == 2

MaxCallbacks == 2

-----------------------------------------------------------------------------
(* Characters and strings. *)

NUL == "NUL"

IdentChars == {"a", "b", "f", "g", "x", "y", "T", "U", "h", "v", "d"}

isIdentifierBody(c) == c \in IdentChars

ColonColon == <<":", ":">>

EmptyString == <<>>

\* tooling::Range(Offset, Length); tooling::Range() is (0, 0).
Range(off, len) == [Offset |-> off, Length |-> len]

EmptyRange == Range(0, 0)

-----------------------------------------------------------------------------
(* The symbol index (SymbolIndexManager): a pure query.  AllSymbols lists   *)
(* the SymbolInfo rows in the index's ranking order; indexDB says which of  *)
(* them the index of this run holds.                                        *)

SymbolInfo(name, kind, path, line, ctxs, occ) ==
    [Name |-> name, Kind |-> kind, FilePath |-> path, LineNumber |-> line,
     Contexts |-> ctxs, NumOccurrences |-> occ]

AllSymbols ==
    << SymbolInfo(<<"g">>, "Function", <<"g", ".", "h">>, 3, << <<"f">>, <<"a">> >>, 2),
       SymbolInfo(<<"x">>, "Variable", <<"\"", "x", ".", "h", "\"">>, 7, <<>>, 5),
       SymbolInfo(<<"x">>, "Class", <<"<", "v", ">">>, 1, <<>>, 1),
       SymbolInfo(<<"x">>, "Class", <<"d", "/", "x", ".", "h">>, 4, << <<"a">> >>, 1),
       SymbolInfo(<<"T">>, "Class", <<"y", ".", "h">>, 9, <<>>, 1) >>

\* Contexts are stored innermost first; the qualified name is outermost first.
RECURSIVE QualifiedName(_, _)
QualifiedName(ctxs, name) ==
    IF ctxs = <<>> THEN name
    ELSE QualifiedName(Tail(ctxs), Head(ctxs) \o ColonColon \o name)

RECURSIVE SelectRanks(_, _)
SelectRanks(i, key) ==
    IF i > Len(AllSymbols) THEN <<>>
    ELSE (IF i \in indexDB
             /\ QualifiedName(AllSymbols[i].Contexts, AllSymbols[i].Name) = key
          THEN <<AllSymbols[i]>> ELSE <<>>) \o SelectRanks(i + 1, key)

\* SymbolIndexMgr.search(key): the known symbols whose qualified name is key,
\* in ranking order; empty when there is none.
search(key) == SelectRanks(1, key)

IndexChoices == { {}, {1, 2, 3, 4, 5}, {2, 3, 5}, {1, 4} }

-----------------------------------------------------------------------------
(* The main file's buffer and the references Sema reports in it.            *)

\* The text "a::f::g(x) y" followed by the buffer's terminating NUL.
MainFileText == <<"a", ":", ":", "f", ":", ":", "g", "(", "x", ")", " ", "y", NUL>>

\* The buffer the SourceManager holds for the main file.
Buffer == buf

\* Buffer[off + 1] is the character at byte offset off.
CharAt(off) == Buffer[off + 1]

\* Characters of the buffer in [from, to).
RECURSIVE SourceText(_, _)
SourceText(from, to) ==
    IF from >= to THEN <<>> ELSE <<CharAt(from)>> \o SourceText(from + 1, to)

\* End offset of the raw identifier token starting at off (token ranges end at
\* the end of their last token).
RECURSIVE TokenEnd(_)
TokenEnd(off) ==
    IF isIdentifierBody(CharAt(off)) THEN TokenEnd(off + 1) ELSE off

\* The scan of ExtendNestedNameSpecifier: from the end of the source text,
\* skip forward over identifier characters and colons.
RECURSIVE ExtendEnd(_)
ExtendEnd(end) ==
    IF isIdentifierBody(CharAt(end)) \/ CharAt(end) = ":"
    THEN ExtendEnd(end + 1) ELSE end

ExtendNestedNameSpecifier(begin, tokLoc) ==
    SourceText(begin, ExtendEnd(TokenEnd(tokLoc)))

\* One read through the pointer End: at an offset of the main file's buffer,
\* or not in that buffer at all.
ReadAt(inBuffer, off) == [inBuffer |-> inBuffer, off |-> off]

\* The offsets the scan reads through *End, in order, starting at end.
RECURSIVE ScanReads(_)
ScanReads(end) ==
    <<ReadAt(TRUE, end)>>
        \o (IF isIdentifierBody(CharAt(end)) \/ CharAt(end) = ":"
            THEN ScanReads(end + 1) ELSE <<>>)

Extended(crashed, text, reads) ==
    [crashed |-> crashed, text |-> text, reads |-> reads]

\* What a call of ExtendNestedNameSpecifier can do.  mapped says whether
\* Lexer::getSourceText could map the range to file text; when it could not
\* it returns StringRef(), whose end() is a null pointer: the read *End is
\* then undefined, and the call stops the process or goes on with whatever
\* that read and the following ones found.
ExtendOutcomes(begin, tokLoc, mapped) ==
    IF mapped
    THEN { Extended(FALSE, ExtendNestedNameSpecifier(begin, tokLoc),
                    ScanReads(TokenEnd(tokLoc))) }
    ELSE { Extended(TRUE, <<>>, <<ReadAt(FALSE, 0)>>),
           Extended(FALSE, <<>>, <<ReadAt(FALSE, 0)>>),
           Extended(FALSE, <<"a">>, <<ReadAt(FALSE, 0), ReadAt(FALSE, 1)>>) }

\* A reference handed to CorrectTypo: SS (valid or not, and where it begins),
\* Typo's location and name, and whether the location is a macro location.
Occurrence(ssValid, ssBegin, loc, isIdent, isMacro, name) ==
    [ssValid |-> ssValid, ssBegin |-> ssBegin, loc |-> loc,
     isIdentifier |-> isIdent, isMacroID |-> isMacro, name |-> name]

Occurrences ==
    { Occurrence(TRUE, 0, 3, TRUE, FALSE, <<"f">>),     \* a::f   (then ::g follows)
      Occurrence(FALSE, 0, 8, TRUE, FALSE, <<"x">>),    \* x
      Occurrence(FALSE, 0, 11, TRUE, FALSE, <<"y">>),   \* y      (last token of the file)
      Occurrence(FALSE, 0, 2, TRUE, TRUE, <<"x">>) }    \* x, spelled in a macro

\* A reference that breaks the caller's contract: its name prints as "".
MalformedOccurrences == { Occurrence(FALSE, 0, 5, FALSE, FALSE, <<>>) }

\* Scope chains (Scope *S): the entity of S and its parents, innermost first.
\* hasScope = FALSE is S == nullptr.
Ctx(isNamespace, name) == [isNamespace |-> isNamespace, name |-> name]

TU == Ctx(FALSE, <<>>)

\* S == nullptr.
NoScope == [hasScope |-> FALSE, chain |-> <<>>]

Scopes ==
    { NoScope,
      [hasScope |-> TRUE, chain |-> <<Ctx(TRUE, <<"b">>), Ctx(TRUE, <<"a">>), TU>>],
      [hasScope |-> TRUE,
       chain |-> <<Ctx(FALSE, <<"f">>), Ctx(TRUE, <<>>), Ctx(TRUE, <<"a">>), TU>>] }

\* The incomplete types reported to the Action: where, and the printed name.
TypeRefs == { [Loc |-> 8, T |-> <<"T">>], [Loc |-> 11, T |-> <<"a", ":", ":", "U">>] }

-----------------------------------------------------------------------------
(* File resolution and header search, as consulted by minimizeInclude.      *)

NoEntry == "NoEntry"

\* SourceManager.getFileManager().getFile(path): the FileEntry, or none.
getFile(path) ==
    CASE path = <<"g", ".", "h">> -> "File_g"
      [] path = <<"x", ".", "h">> -> "File_x"
      [] path = <<"d", "/", "x", ".", "h">> -> "File_x"
      [] path = <<"v">> -> "File_v"
      [] OTHER -> NoEntry

\* HeaderSearch.suggestPathToFileForDiagnostics(Entry, &IsSystem).
suggestPathToFileForDiagnostics(entry) ==
    CASE entry = "File_g" -> [Suggestion |-> <<"g", ".", "h">>, IsSystem |-> FALSE]
      [] entry = "File_x" -> [Suggestion |-> <<"x", ".", "h">>, IsSystem |-> FALSE]
      [] OTHER -> [Suggestion |-> <<"v">>, IsSystem |-> TRUE]

TrimChars == {"\"", "<", ">"}

RECURSIVE ltrim(_)
ltrim(s) == IF s # <<>> /\ Head(s) \in TrimChars THEN ltrim(Tail(s)) ELSE s

RECURSIVE rtrim(_)
rtrim(s) ==
    IF s # <<>> /\ s[Len(s)] \in TrimChars THEN rtrim(SubSeq(s, 1, Len(s) - 1)) ELSE s

\* StringRef::trim("\"<>")
trim(s) == rtrim(ltrim(s))

Quoted(s) == <<"\"">> \o s \o <<"\"">>

Angled(s) == <<"<">> \o s \o <<">">>

\* One call of a collaborator of minimizeInclude, as it is observed.
Asked(fn, x) == [fn |-> fn, arg |-> x]

\* minimizeInclude resolving the file before it tests MinimizeIncludePaths.
minimizeIncludeRunResolveFirst(Include) ==
    LET StrippedInclude == trim(Include)
        Entry == getFile(StrippedInclude)
        Resolved == Asked("getFile", StrippedInclude)
    IN  IF ~MinimizeIncludePaths
        THEN [result |-> Include, calls |-> <<Resolved>>]
        ELSE IF Entry = NoEntry
        THEN [result |-> Include, calls |-> <<Resolved>>]
        ELSE LET S == suggestPathToFileForDiagnostics(Entry)
             IN  [result |-> IF S.IsSystem THEN Angled(S.Suggestion)
                             ELSE Quoted(S.Suggestion),
                  calls |-> <<Resolved,
                              Asked("suggestPathToFileForDiagnostics", Entry)>>]

\* minimizeInclude keeping the kind of delimiter the input started with.
minimizeIncludeRunKeepDelimiters(Include) ==
    IF ~MinimizeIncludePaths THEN [result |-> Include, calls |-> <<>>]
    ELSE LET StrippedInclude == trim(Include)
             Entry == getFile(StrippedInclude)
             Resolved == Asked("getFile", StrippedInclude)
         IN  IF Entry = NoEntry
             THEN [result |-> Include, calls |-> <<Resolved>>]
             ELSE LET S == suggestPathToFileForDiagnostics(Entry)
                  IN  [result |-> IF Include # <<>> /\ Head(Include) = "<"
                                  THEN Angled(S.Suggestion)
                                  ELSE Quoted(S.Suggestion),
                       calls |-> <<Resolved,
                                   Asked("suggestPathToFileForDiagnostics",
                                         Entry)>>]

\* The value minimizeInclude returns and the collaborators it asks, in order.
minimizeIncludeRun(Include) ==
    IF ~MinimizeIncludePaths THEN [result |-> Include, calls |-> <<>>]
    ELSE LET StrippedInclude == trim(Include)
             Entry == getFile(StrippedInclude)
             Resolved == Asked("getFile", StrippedInclude)
         IN  IF Entry = NoEntry
             THEN [result |-> Include, calls |-> <<Resolved>>]
             ELSE LET S == suggestPathToFileForDiagnostics(Entry)
                  IN  [result |-> IF S.IsSystem THEN Angled(S.Suggestion)
                                  ELSE Quoted(S.Suggestion),
                       calls |-> <<Resolved,
                                   Asked("suggestPathToFileForDiagnostics",
                                         Entry)>>]

minimizeInclude(Include) == minimizeIncludeRun(Include).result

IncludeFixerContext(symbol, qualifiers, candidates, range) ==
    [QuerySymbol |-> symbol, SymbolScopedQualifiers |-> qualifiers,
     SymbolCandidates |-> candidates, QuerySymbolRange |-> range]

\* The path always wrapped in double quotes, whatever it starts with.
SpelledIncludeAlwaysQuoted(FilePath) == Quoted(FilePath)

\* The argument handed to minimizeInclude: FilePath itself when its first
\* character is '"' or '<', else FilePath between double quotes.  FilePath[0]
\* of an empty std::string is its terminating NUL.
SpelledInclude(FilePath) ==
    IF FilePath # <<>> /\ FilePath[1] \in {"\"", "<"}
    THEN FilePath ELSE Quoted(FilePath)

\* The body of the loop of getIncludeFixerContext for one matched symbol.
MinimizedCandidate(Symbol) ==
    SymbolInfo(Symbol.Name, Symbol.Kind,
               minimizeInclude(SpelledInclude(Symbol.FilePath)),
               Symbol.LineNumber, Symbol.Contexts, Symbol.NumOccurrences)

\* The loop pushing each new candidate in front of the earlier ones.
RECURSIVE MinimizedCandidatesFront(_)
MinimizedCandidatesFront(symbols) ==
    IF symbols = <<>> THEN <<>>
    ELSE MinimizedCandidatesFront(Tail(symbols))
             \o <<MinimizedCandidate(Head(symbols))>>

\* The loop of getIncludeFixerContext over the matched symbols.
RECURSIVE MinimizedCandidates(_)
MinimizedCandidates(symbols) ==
    IF symbols = <<>> THEN <<>>
    ELSE <<MinimizedCandidate(Head(symbols))>>
             \o MinimizedCandidates(Tail(symbols))

getIncludeFixerContext ==
    IncludeFixerContext(QuerySymbol, SymbolScopedQualifiers,
                        MinimizedCandidates(MatchedSymbols), QuerySymbolRange)

-----------------------------------------------------------------------------
(* Action::query and the two callbacks.                                     *)

\* Outcome of one call of query(): whether the assertion stopped the process,
\* whether the call passed the "already matched" guard, the value returned,
\* the fields after the call and the keys handed to the index, in order.
QueryOutcome(aborted, accepted, r, symbol, range, qualifiers, matched, searched) ==
    [aborted |-> aborted, accepted |-> accepted, ret |-> r,
     QuerySymbol |-> symbol, QuerySymbolRange |-> range,
     SymbolScopedQualifiers |-> qualifiers, MatchedSymbols |-> matched,
     searched |-> searched]

Untouched(aborted) ==
    QueryOutcome(aborted, FALSE, FALSE, QuerySymbol, QuerySymbolRange,
                 SymbolScopedQualifiers, MatchedSymbols, <<>>)

\* query() without the "already matched" guard.
queryNoGuard(Query, ScopedQualifiers, R) ==
    IF Query = <<>> /\ ~NDEBUG THEN Untouched(TRUE)
    ELSE LET QueryString == ScopedQualifiers \o Query
             First == search(QueryString)
             Again == First = <<>> /\ ScopedQualifiers # <<>>
             Found == IF Again THEN search(Query) ELSE First
         IN  QueryOutcome(FALSE, TRUE, Found # <<>>, Query, R, ScopedQualifiers,
                          Found,
                          IF Again THEN <<QueryString, Query>> ELSE <<QueryString>>)

\* query() without the fallback to the bare name.
queryNoFallback(Query, ScopedQualifiers, R) ==
    IF Query = <<>> /\ ~NDEBUG THEN Untouched(TRUE)
    ELSE IF MatchedSymbols # <<>> THEN Untouched(FALSE)
    ELSE LET QueryString == ScopedQualifiers \o Query
             Found == search(QueryString)
         IN  QueryOutcome(FALSE, TRUE, Found # <<>>, Query, R, ScopedQualifiers,
                          Found, <<QueryString>>)

\* query() asking for the bare name first and the scoped name second.
queryBareFirst(Query, ScopedQualifiers, R) ==
    IF Query = <<>> /\ ~NDEBUG THEN Untouched(TRUE)
    ELSE IF MatchedSymbols # <<>> THEN Untouched(FALSE)
    ELSE LET QueryString == ScopedQualifiers \o Query
             First == search(Query)
             Again == First = <<>> /\ ScopedQualifiers # <<>>
             Found == IF Again THEN search(QueryString) ELSE First
         IN  QueryOutcome(FALSE, TRUE, Found # <<>>, Query, R, ScopedQualifiers,
                          Found,
                          IF Again THEN <<Query, QueryString>> ELSE <<Query>>)

\* query() storing the symbol, range and qualifiers only when symbols were found.
queryPersistOnSuccess(Query, ScopedQualifiers, R) ==
    IF Query = <<>> /\ ~NDEBUG THEN Untouched(TRUE)
    ELSE IF MatchedSymbols # <<>> THEN Untouched(FALSE)
    ELSE LET QueryString == ScopedQualifiers \o Query
             First == search(QueryString)
             Again == First = <<>> /\ ScopedQualifiers # <<>>
             Found == IF Again THEN search(Query) ELSE First
         IN  IF Found = <<>>
             THEN QueryOutcome(FALSE, TRUE, FALSE, QuerySymbol, QuerySymbolRange,
                               SymbolScopedQualifiers, Found,
                               IF Again THEN <<QueryString, Query>>
                               ELSE <<QueryString>>)
             ELSE QueryOutcome(FALSE, TRUE, TRUE, Query, R, ScopedQualifiers, Found,
                               IF Again THEN <<QueryString, Query>>
                               ELSE <<QueryString>>)

\* query() adding the unqualified matches to the qualified ones.
queryUnion(Query, ScopedQualifiers, R) ==
    IF Query = <<>> /\ ~NDEBUG THEN Untouched(TRUE)
    ELSE IF MatchedSymbols # <<>> THEN Untouched(FALSE)
    ELSE LET QueryString == ScopedQualifiers \o Query
             First == search(QueryString)
             Again == ScopedQualifiers # <<>>
             Found == IF Again THEN First \o search(Query) ELSE First
         IN  QueryOutcome(FALSE, TRUE, Found # <<>>, Query, R, ScopedQualifiers,
                          Found,
                          IF Again THEN <<QueryString, Query>> ELSE <<QueryString>>)

query(Query, ScopedQualifiers, R) ==
    IF Query = <<>> /\ ~NDEBUG THEN Untouched(TRUE)    \* assert(!Query.empty())
    ELSE IF MatchedSymbols # <<>> THEN Untouched(FALSE)
    ELSE LET QueryString == ScopedQualifiers \o Query
             First == search(QueryString)
             Again == First = <<>> /\ ScopedQualifiers # <<>>
             Found == IF Again THEN search(Query) ELSE First
         IN  QueryOutcome(FALSE, TRUE, Found # <<>>, Query, R, ScopedQualifiers,
                          Found,
                          IF Again THEN <<QueryString, Query>> ELSE <<QueryString>>)

\* The loop appending each namespace after the ones met before it.
RECURSIVE ScopeWalkInnermostFirst(_, _)
ScopeWalkInnermostFirst(chain, acc) ==
    IF chain = <<>> THEN acc
    ELSE ScopeWalkInnermostFirst(Tail(chain),
                   IF Head(chain).isNamespace /\ Head(chain).name # <<>>
                   THEN acc \o Head(chain).name \o ColonColon
                   ELSE acc)

\* The loop over S->getEntity() and its parents.
RECURSIVE ScopeWalk(_, _)
ScopeWalk(chain, acc) ==
    IF chain = <<>> THEN acc
    ELSE ScopeWalk(Tail(chain),
                   IF Head(chain).isNamespace /\ Head(chain).name # <<>>
                   THEN Head(chain).name \o ColonColon \o acc
                   ELSE acc)

TypoScopeString(S) == IF S.hasScope THEN ScopeWalk(S.chain, <<>>) ELSE <<>>

CreateToolingRange(QueryString, BeginLoc) == Range(BeginLoc, Len(QueryString))

\* QueryString and SymbolRange as CorrectTypo computes them for a reference.
TypoQueryString(occ) ==
    IF occ.ssValid THEN ExtendNestedNameSpecifier(occ.ssBegin, occ.loc)
    ELSE IF occ.isIdentifier /\ ~occ.isMacroID
         THEN ExtendNestedNameSpecifier(occ.loc, occ.loc)
         ELSE occ.name

\* SymbolRange always starting at Typo's location, also for a qualified name.
TypoSymbolRangeAtTypo(occ) == CreateToolingRange(TypoQueryString(occ), occ.loc)

TypoSymbolRange(occ) ==
    IF occ.ssValid THEN CreateToolingRange(TypoQueryString(occ), occ.ssBegin)
    ELSE CreateToolingRange(TypoQueryString(occ), occ.loc)

None == [kind |-> "none"]

\* For the history variables, stated apart from query(): the two-phase lookup
\* a query stands for, and whether the build stops on it.
Lookup(Query, Scope) ==
    IF search(Scope \o Query) # <<>> THEN search(Scope \o Query) ELSE search(Query)

Stopped(Query) == Query = <<>> /\ ~NDEBUG

\* What is recorded of a query: the callback kind, where the reference starts
\* and the three arguments of query().
Call(kind, loc, Query, Scope, R) ==
    [kind |-> kind, loc |-> loc, Query |-> Query, Scope |-> Scope, Range |-> R]

Observed(kind, sfinae, inMain, called, wasResolved, call, o) ==
    [kind |-> kind, sfinae |-> sfinae, inMain |-> inMain, called |-> called,
     wasResolved |-> wasResolved, call |-> call, aborted |-> o.aborted,
     accepted |-> o.accepted, qret |-> o.ret, searched |-> o.searched]

NoCallback == Observed("none", FALSE, TRUE, FALSE, FALSE, None, Untouched(FALSE))

\* The callback returns before reaching query().
Ignored(kind, sfinae, inMain) ==
    /\ lastCb' = Observed(kind, sfinae, inMain, FALSE, MatchedSymbols # <<>>,
                          None, Untouched(FALSE))
    /\ UNCHANGED <<pc, actionVars, firstSuccess, lastAccepted>>

\* The callback calls query(Query, Scope, R) and drops its result.
Queried(kind, sfinae, inMain, loc, Query, Scope, R) ==
    LET o == query(Query, Scope, R)
        c == Call(kind, loc, Query, Scope, R)
    IN  /\ pc' = IF o.aborted THEN "aborted" ELSE pc
        /\ QuerySymbol' = o.QuerySymbol
        /\ QuerySymbolRange' = o.QuerySymbolRange
        /\ SymbolScopedQualifiers' = o.SymbolScopedQualifiers
        /\ MatchedSymbols' = o.MatchedSymbols
        /\ lastCb' = Observed(kind, sfinae, inMain, TRUE, MatchedSymbols # <<>>,
                              c, o)
        /\ firstSuccess' = IF firstSuccess = None /\ ~Stopped(Query)
                              /\ Lookup(Query, Scope) # <<>>
                           THEN c ELSE firstSuccess
        /\ lastAccepted' = IF firstSuccess = None /\ ~Stopped(Query)
                           THEN c ELSE lastAccepted

\* MaybeDiagnoseMissingCompleteType without the SFINAE test.
MaybeDiagnoseMissingCompleteTypeNoSFINAE(sfinae, inMain, Loc, T) ==
    /\ pc = "parsing"
    /\ ncb < MaxCallbacks
    /\ ncb' = ncb + 1
    /\ Queried("type", sfinae, inMain, Loc, T, <<>>, EmptyRange)
    /\ UNCHANGED <<NDEBUG, indexDB, MinimizeIncludePaths, nfiles, fatal, Context, ret>>

MaybeDiagnoseMissingCompleteType(sfinae, inMain, Loc, T) ==
    /\ pc = "parsing"
    /\ ncb < MaxCallbacks
    /\ ncb' = ncb + 1
    /\ IF sfinae
       THEN Ignored("type", sfinae, inMain)
       ELSE Queried("type", sfinae, inMain, Loc, T, <<>>, EmptyRange)
    /\ UNCHANGED <<NDEBUG, indexDB, MinimizeIncludePaths, nfiles, fatal, Context, ret>>

\* CorrectTypo without the isWrittenInMainFile test.
CorrectTypoNoMainFileCheck(sfinae, inMain, S, occ) ==
    /\ pc = "parsing"
    /\ ncb < MaxCallbacks
    /\ ncb' = ncb + 1
    /\ IF sfinae
       THEN Ignored("typo", sfinae, inMain)
       ELSE Queried("typo", sfinae, inMain,
                    IF occ.ssValid THEN occ.ssBegin ELSE occ.loc,
                    TypoQueryString(occ), TypoScopeString(S),
                    TypoSymbolRange(occ))
    /\ UNCHANGED <<NDEBUG, indexDB, MinimizeIncludePaths, nfiles, fatal, Context, ret>>

CorrectTypo(sfinae, inMain, S, occ) ==
    /\ pc = "parsing"
    /\ ncb < MaxCallbacks
    /\ ncb' = ncb + 1
    /\ IF sfinae
       THEN Ignored("typo", sfinae, inMain)
       ELSE IF ~inMain
            THEN Ignored("typo", sfinae, inMain)
            ELSE Queried("typo", sfinae, inMain,
                         IF occ.ssValid THEN occ.ssBegin ELSE occ.loc,
                         TypoQueryString(occ), TypoScopeString(S),
                         TypoSymbolRange(occ))
    /\ UNCHANGED <<NDEBUG, indexDB, MinimizeIncludePaths, nfiles, fatal, Context, ret>>

-----------------------------------------------------------------------------
(* IncludeFixerActionFactory::runInvocation: one fresh Action per file.     *)

\* One Action kept by the factory and used again for the next file.
NewActionReused ==
    [QuerySymbol |-> QuerySymbol, SymbolScopedQualifiers |-> SymbolScopedQualifiers,
     QuerySymbolRange |-> QuerySymbolRange, MatchedSymbols |-> MatchedSymbols]

\* The fields of a newly constructed Action.
NewAction ==
    [QuerySymbol |-> <<>>, SymbolScopedQualifiers |-> <<>>,
     QuerySymbolRange |-> EmptyRange, MatchedSymbols |-> <<>>]

\* Set up the compiler, create the Action and start Compiler.ExecuteAction.
RunInvocationBegin ==
    /\ pc = "idle"
    /\ nfiles < MaxFiles
    /\ nfiles' = nfiles + 1
    /\ pc' = "parsing"
    /\ fatal' = FALSE
    /\ QuerySymbol' = NewAction.QuerySymbol
    /\ SymbolScopedQualifiers' = NewAction.SymbolScopedQualifiers
    /\ QuerySymbolRange' = NewAction.QuerySymbolRange
    /\ MatchedSymbols' = NewAction.MatchedSymbols
    /\ lastCb' = NoCallback
    /\ firstSuccess' = None
    /\ lastAccepted' = None
    /\ UNCHANGED <<NDEBUG, indexDB, MinimizeIncludePaths, ncb, Context, ret>>

\* runInvocation returning early, without writing Context, on a fatal error.
RunInvocationEndSkipOnFatal(fatalError) ==
    /\ pc = "parsing"
    /\ pc' = "idle"
    /\ fatal' = fatalError
    /\ Context' = IF fatalError THEN Context ELSE getIncludeFixerContext
    /\ ret' = ~fatalError
    /\ UNCHANGED <<NDEBUG, indexDB, MinimizeIncludePaths, nfiles, ncb, actionVars,
                   lastCb, firstSuccess, lastAccepted>>

\* Compiler.ExecuteAction returns (the parse ended, or a fatal error cut it
\* short); then Context = getIncludeFixerContext(...) and
\* return !hasFatalErrorOccurred().
RunInvocationEnd(fatalError) ==
    /\ pc = "parsing"
    /\ pc' = "idle"
    /\ fatal' = fatalError
    /\ Context' = getIncludeFixerContext
    /\ ret' = ~fatalError
    /\ UNCHANGED <<NDEBUG, indexDB, MinimizeIncludePaths, nfiles, ncb, actionVars,
                   lastCb, firstSuccess, lastAccepted>>

-----------------------------------------------------------------------------
(* createInsertHeaderReplacements and its two collaborators.                *)

\* llvm::Expected<tooling::Replacements>: a value or an error.
Ok(value) == [ok |-> TRUE, value |-> value]

Err(error) == [ok |-> FALSE, error |-> error]

\* tooling::Replacement(FilePath, Offset, Length, ReplacementText)
Replacement(FilePath, Offset, Length, Text) ==
    [FilePath |-> FilePath, Offset |-> Offset, Length |-> Length, Text |-> Text]

\* The offset that stands for "after the include block"; it is only ever
\* compared and passed on, so it is kept as a token rather than as 2^32 - 1.
UINT_MAX == "UINT_MAX"

\* "#include " + Header.str() + "\n"
IncludeName(Header) ==
    <<"#", "i", "n", "c", "l", "u", "d", "e", " ">> \o Header \o <<"\n">>

\* How cleanupAroundReplacements answers: an error, or the insertion moved to
\* the offset it chose in the code.
CleanupBehaviours ==
    { [fails |-> TRUE, error |-> "cleanup: malformed source", at |-> 0],
      [fails |-> TRUE, error |-> "cleanup: conflicting edits", at |-> 0],
      [fails |-> FALSE, error |-> "", at |-> 0],
      [fails |-> FALSE, error |-> "", at |-> 1] }

\* How formatReplacements answers: an error, or its input plus the edits that
\* reformat the touched region.
FormatBehaviours ==
    { [fails |-> TRUE, error |-> "format: malformed source", extra |-> {}],
      [fails |-> TRUE, error |-> "format: conflicting edits", extra |-> {}],
      [fails |-> FALSE, error |-> "", extra |-> {}],
      [fails |-> FALSE, error |-> "",
       extra |-> {Replacement(<<"m">>, 0, 1, <<" ">>)}] }

cleanupAroundReplacements(Code, Replaces, Style, c) ==
    IF c.fails THEN Err(c.error)
    ELSE Ok({Replacement(r.FilePath, c.at, r.Length, r.Text) : r \in Replaces})

formatReplacements(Code, Replaces, Style, f) ==
    IF f.fails THEN Err(f.error) ELSE Ok(Replaces \cup f.extra)

\* One call of a collaborator, as it is observed.
Consult(fn, Code, Replaces, Style) ==
    [fn |-> fn, Code |-> Code, Replaces |-> Replaces, Style |-> Style]

\* createInsertHeaderReplacements without the test for an empty Header.
createInsertHeaderReplacementsNoEmptyTest(Code, FilePath, Header, Style, c, f) ==
    LET Insertions == {Replacement(FilePath, UINT_MAX, 0, IncludeName(Header))}
        CleanReplaces == cleanupAroundReplacements(Code, Insertions, Style, c)
        Cleaned == Consult("cleanupAroundReplacements", Code, Insertions, Style)
    IN  IF ~CleanReplaces.ok
        THEN [result |-> CleanReplaces, calls |-> <<Cleaned>>]
        ELSE [result |-> formatReplacements(Code, CleanReplaces.value, Style, f),
              calls |-> <<Cleaned,
                          Consult("formatReplacements", Code, CleanReplaces.value,
                                  Style)>>]

\* createInsertHeaderReplacements falling back to the unformatted edits when
\* formatting fails.
createInsertHeaderReplacementsKeepOnError(Code, FilePath, Header, Style, c, f) ==
    IF Header = <<>> THEN [result |-> Ok({}), calls |-> <<>>]
    ELSE LET Insertions == {Replacement(FilePath, UINT_MAX, 0, IncludeName(Header))}
             CleanReplaces == cleanupAroundReplacements(Code, Insertions, Style, c)
             Cleaned == Consult("cleanupAroundReplacements", Code, Insertions, Style)
             Formatted == formatReplacements(Code, CleanReplaces.value, Style, f)
         IN  IF ~CleanReplaces.ok
             THEN [result |-> CleanReplaces, calls |-> <<Cleaned>>]
             ELSE [result |-> IF Formatted.ok THEN Formatted ELSE CleanReplaces,
                   calls |-> <<Cleaned,
                               Consult("formatReplacements", Code,
                                       CleanReplaces.value, Style)>>]

\* The value returned and the collaborators called, in order.  c and f are
\* the answers the two collaborators give when they are called.
createInsertHeaderReplacements(Code, FilePath, Header, Style, c, f) ==
    IF Header = <<>> THEN [result |-> Ok({}), calls |-> <<>>]
    ELSE LET Insertions == {Replacement(FilePath, UINT_MAX, 0, IncludeName(Header))}
             CleanReplaces == cleanupAroundReplacements(Code, Insertions, Style, c)
             Cleaned == Consult("cleanupAroundReplacements", Code, Insertions, Style)
         IN  IF ~CleanReplaces.ok
             THEN [result |-> CleanReplaces, calls |-> <<Cleaned>>]
             ELSE [result |-> formatReplacements(Code, CleanReplaces.value, Style, f),
                   calls |-> <<Cleaned,
                               Consult("formatReplacements", Code,
                                       CleanReplaces.value, Style)>>]

Codes == { <<>>, <<"x", ";">> }

FilePaths == { <<"m">> }

Headers == { <<>>, <<"<", "v", ">">>, <<"\"", "x", ".", "h", "\"">> }

Styles == { "LLVM", "Google" }

progVars == <<NDEBUG, indexDB, MinimizeIncludePaths, pc, nfiles, ncb, QuerySymbol,
              SymbolScopedQualifiers, QuerySymbolRange, MatchedSymbols, fatal,
              Context, ret, lastCb, firstSuccess, lastAccepted, lastS>>

\* One call of createInsertHeaderReplacements by the tool's driver.
InsertHeader(Code, FilePath, Header, Style, c, f) ==
    LET out == createInsertHeaderReplacements(Code, FilePath, Header, Style, c, f)
    IN  /\ op = "none"
        /\ op' = "createInsertHeaderReplacements"
        /\ arg' = [Code |-> Code, FilePath |-> FilePath, Header |-> Header,
                   Style |-> Style, c |-> c, f |-> f]
        /\ res' = out.result
        /\ consulted' = out.calls
        /\ UNCHANGED <<progVars, buf>>

-----------------------------------------------------------------------------
(* The context builder and the minimizer applied to one stored path.        *)

PathPrefixes == { <<>>, <<"\"">>, <<"<">> }

PathBodies == { <<>>, <<"x", ".", "h">>, <<"d", "/", "x", ".", "h">>, <<"v">>,
                <<"n", ".", "h">> }

PathSuffixes == { <<>>, <<"\"">>, <<">">> }

\* Stored paths: a body with or without a delimiter at either end.
StoredPaths ==
    { pre \o body \o suf : pre \in PathPrefixes, body \in PathBodies,
                           suf \in PathSuffixes }

\* One turn of the loop of getIncludeFixerContext, on a symbol stored with
\* path FilePath; consulted records the argument of minimizeInclude.
BuildCandidate(FilePath) ==
    LET Symbol == SymbolInfo(<<"x">>, "Class", FilePath, 4, << <<"a">> >>, 1)
    IN  /\ op = "none"
        /\ op' = "getIncludeFixerContext"
        /\ arg' = [Symbol |-> Symbol]
        /\ res' = MinimizedCandidate(Symbol)
        /\ consulted' = <<[fn |-> "minimizeInclude",
                           Include |-> SpelledInclude(FilePath)]>>
        /\ UNCHANGED <<progVars, buf>>

\* One call of minimizeInclude.
Minimize(Include) ==
    LET out == minimizeIncludeRun(Include)
    IN  /\ op = "none"
        /\ op' = "minimizeInclude"
        /\ arg' = [Include |-> Include]
        /\ res' = out.result
        /\ consulted' = out.calls
        /\ UNCHANGED <<progVars, buf>>

-----------------------------------------------------------------------------
(* ExtendNestedNameSpecifier applied to small buffers.                      *)

MaxBufLen == 4

\* One identifier character, the colon and one character that is neither.
BufferChars == {"a", ":", "("}

\* The buffers of up to MaxBufLen characters, each ending with its NUL.
Buffers ==
    UNION { { [i \in 1..(n + 1) |-> IF i <= n THEN t[i] ELSE NUL] :
                  t \in [1..n -> BufferChars] } : n \in 1..MaxBufLen }

\* The offsets of Buffer where an identifier token starts.
IdentifierStarts ==
    { off \in 0..(Len(Buffer) - 2) :
          /\ isIdentifierBody(CharAt(off))
          /\ off = 0 \/ ~isIdentifierBody(CharAt(off - 1)) }

\* The SourceManager holds b as the main file.
LoadBuffer(b) ==
    /\ op = "none"
    /\ op' = "loaded"
    /\ buf' = b
    /\ UNCHANGED <<progVars, arg, res, consulted>>

\* One call of ExtendNestedNameSpecifier on the token range from begin to
\* the token at tokLoc, as made for a reference with a valid SS.
Extend(begin, tokLoc, mapped) ==
    /\ op = "loaded"
    /\ begin <= tokLoc
    /\ op' = "ExtendNestedNameSpecifier"
    /\ arg' = [begin |-> begin, tokLoc |-> tokLoc, mapped |-> mapped]
    /\ \E out \in ExtendOutcomes(begin, tokLoc, mapped) :
           /\ res' = [crashed |-> out.crashed, text |-> out.text]
           /\ consulted' = out.reads
    /\ UNCHANGED <<progVars, buf>>

-----------------------------------------------------------------------------

Init ==
    /\ NDEBUG \in BOOLEAN
    /\ indexDB \in IndexChoices
    /\ MinimizeIncludePaths \in BOOLEAN
    /\ pc = "idle"
    /\ nfiles = 0
    /\ ncb = 0
    /\ QuerySymbol = <<>>
    /\ SymbolScopedQualifiers = <<>>
    /\ QuerySymbolRange = EmptyRange
    /\ MatchedSymbols = <<>>
    /\ fatal = FALSE
    /\ Context = IncludeFixerContext(<<>>, <<>>, <<>>, EmptyRange)
    /\ ret = TRUE
    /\ lastCb = NoCallback
    /\ firstSuccess = None
    /\ lastAccepted = None
    /\ lastS = NoScope
    /\ buf = MainFileText
    /\ op = "none"
    /\ arg = <<>>
    /\ res = <<>>
    /\ consulted = <<>>

\* The chain recorded for a CorrectTypo that went on to build its qualifier.
ScopeSeen(sfinae, inMain, S) == IF sfinae \/ ~inMain THEN NoScope ELSE S

\* A step of the program leaves the buffer and the unit runs alone.
ProgramFrame == UNCHANGED <<buf, unitVars>>

Next ==
    \/ RunInvocationBegin /\ lastS' = NoScope /\ ProgramFrame
    \/ \E sfinae \in BOOLEAN, inMain \in BOOLEAN, S \in Scopes, occ \in Occurrences :
          /\ CorrectTypo(sfinae, inMain, S, occ)
          /\ lastS' = ScopeSeen(sfinae, inMain, S)
          /\ ProgramFrame
    \/ \E sfinae \in BOOLEAN, inMain \in BOOLEAN, ref \in TypeRefs :
          /\ MaybeDiagnoseMissingCompleteType(sfinae, inMain, ref.Loc, ref.T)
          /\ lastS' = NoScope
          /\ ProgramFrame
    \/ \E fatalError \in BOOLEAN :
          RunInvocationEnd(fatalError) /\ UNCHANGED lastS /\ ProgramFrame

Spec == Init /\ [][Next]_vars

\* The same program driven by a caller that may also hand over a reference
\* whose query text is empty.
NextMalformed ==
    \/ Next
    \/ \E sfinae \in BOOLEAN, inMain \in BOOLEAN, S \in Scopes,
          occ \in MalformedOccurrences :
          /\ CorrectTypo(sfinae, inMain, S, occ)
          /\ lastS' = ScopeSeen(sfinae, inMain, S)
          /\ ProgramFrame

SpecMalformed == Init /\ [][NextMalformed]_vars

\* The functions of the file applied once each, to arguments drawn from small
\* sets.
NextUnit ==
    \/ \E Code \in Codes, FilePath \in FilePaths, Header \in Headers, Style \in Styles,
          c \in CleanupBehaviours, f \in FormatBehaviours :
          InsertHeader(Code, FilePath, Header, Style, c, f)
    \/ \E FilePath \in StoredPaths : BuildCandidate(FilePath)
    \/ \E Include \in StoredPaths : Minimize(Include)
    \/ \E b \in Buffers : LoadBuffer(b)
    \/ \E begin \in IdentifierStarts, tokLoc \in IdentifierStarts, mapped \in BOOLEAN :
          Extend(begin, tokLoc, mapped)

SpecUnit == Init /\ [][NextUnit]_vars

-----------------------------------------------------------------------------
(* Properties.                                                              *)

\* A step that delivers one callback.
CallbackStep == ncb' = ncb + 1

\* The last callback reached the lookup of query() with a qualifier, and the
\* index knows nothing under the qualified key.
ScopedMiss ==
    /\ lastCb.accepted
    /\ lastCb.call.Scope # <<>>
    /\ search(lastCb.call.Scope \o lastCb.call.Query) = <<>>

\* The context a file's callbacks stand for, from the history of that file alone.
ExpectedContext ==
    IF firstSuccess # None
    THEN IncludeFixerContext(firstSuccess.Query, firstSuccess.Scope,
                             MinimizedCandidates(Lookup(firstSuccess.Query,
                                                        firstSuccess.Scope)),
                             firstSuccess.Range)
    ELSE IF lastAccepted # None
         THEN IncludeFixerContext(lastAccepted.Query, lastAccepted.Scope, <<>>,
                                  lastAccepted.Range)
         ELSE IncludeFixerContext(<<>>, <<>>, <<>>, EmptyRange)

\* C1: once MatchedSymbols is non-empty, no step of the same file changes
\* MatchedSymbols, the queried symbol, the qualifier or the range, and every
\* later callback issues no index query and its query returns false.
C1_FirstSuccessWins ==
    [][ (MatchedSymbols # <<>> /\ nfiles' = nfiles)
        => /\ UNCHANGED actionVars
           /\ CallbackStep => /\ lastCb'.searched = <<>>
                              /\ lastCb'.qret = FALSE ]_vars

C1_Witness ==
    /\ lastCb.called
    /\ lastCb.wasResolved
    /\ lastCb.call.Query # QuerySymbol

\* C2: when a query with a non-empty qualifier finds nothing under
\* qualifier + name, the bare name is queried too and its result (possibly
\* empty) is the candidate set; the stored symbol is the bare name and the
\* stored qualifier the original scope, also in the context written at the end.
C2_FallbackToBareName ==
    ScopedMiss
    => /\ lastCb.searched = <<lastCb.call.Scope \o lastCb.call.Query, lastCb.call.Query>>
       /\ MatchedSymbols = search(lastCb.call.Query)
       /\ QuerySymbol = lastCb.call.Query
       /\ SymbolScopedQualifiers = lastCb.call.Scope
       /\ pc = "idle" => /\ Context.QuerySymbol = lastCb.call.Query
                         /\ Context.SymbolScopedQualifiers = lastCb.call.Scope
                         /\ Len(Context.SymbolCandidates) = Len(search(lastCb.call.Query))

C2_Witness ==
    /\ ScopedMiss
    /\ pc = "idle"
    /\ Context.QuerySymbol = <<"x">>
    /\ Context.SymbolScopedQualifiers = <<"a", ":", ":", "b", ":", ":">>
    /\ Len(Context.SymbolCandidates) = 2

\* C3: a query that reaches the lookup consults the index first with
\* qualifier + name and at most twice; the bare name is queried iff the first
\* result is empty and the qualifier is non-empty; a non-empty first result is
\* the candidate set; with an empty qualifier there is exactly one query.
C3_LookupOrder ==
    lastCb.accepted
    => LET key == lastCb.call.Scope \o lastCb.call.Query
           n == Len(lastCb.searched)
       IN  /\ n \in {1, 2}
           /\ lastCb.searched[1] = key
           /\ n = 2 <=> (search(key) = <<>> /\ lastCb.call.Scope # <<>>)
           /\ n = 2 => lastCb.searched[2] = lastCb.call.Query
           /\ search(key) # <<>> => (n = 1 /\ MatchedSymbols = search(key))
           /\ lastCb.call.Scope = <<>> => n = 1

C3_Witness ==
    /\ lastCb.accepted
    /\ lastCb.call.Scope # <<>>
    /\ search(lastCb.call.Scope \o lastCb.call.Query) # <<>>
    /\ lastCb.searched = <<lastCb.call.Scope \o lastCb.call.Query>>
    /\ search(lastCb.call.Query) # <<>>

\* C4 as claimed: a callback of either kind whose reference lies outside the
\* main file issues no index query and does not reach the lookup.
C4_OutsideMainFileIgnored ==
    (lastCb.kind # "none" /\ ~lastCb.inMain)
    => (~lastCb.called /\ lastCb.searched = <<>>)

\* C4 as amended: an unresolved-identifier callback whose reference lies
\* outside the main file issues no index query and changes no field of the
\* Action; an incomplete-type callback is not filtered by location: outside a
\* SFINAE context it always calls query().
C4_TypoOutsideMainFileIgnored ==
    [][ CallbackStep
        => /\ (lastCb'.kind = "typo" /\ ~lastCb'.inMain)
              => (UNCHANGED actionVars /\ ~lastCb'.called /\ lastCb'.searched = <<>>)
           /\ (lastCb'.kind = "type" /\ ~lastCb'.sfinae) => lastCb'.called ]_vars

C4_Witness ==
    /\ lastCb.kind = "typo"
    /\ ~lastCb.inMain
    /\ ~lastCb.sfinae
    /\ ~lastCb.wasResolved
    /\ pc = "parsing"

\* C5: a callback of either kind delivered in a SFINAE context never calls
\* query(), issues no index query and changes no field of the Action, resolved
\* or not.
C5_SFINAEIgnored ==
    [][ (CallbackStep /\ lastCb'.sfinae)
        => /\ UNCHANGED actionVars
           /\ ~lastCb'.called
           /\ lastCb'.searched = <<>>
           /\ lastCb'.qret = FALSE ]_vars

C5_Witness ==
    /\ lastCb.kind = "type"
    /\ lastCb.sfinae
    /\ ~lastCb.wasResolved
    /\ pc = "parsing"

\* C6 as claimed: a query with empty text returns false, issues no index
\* query, is not taken up by the lookup and does not stop the process.
C6_EmptyQuerySoftFailure ==
    (lastCb.called /\ lastCb.call.Query = <<>>)
    => /\ pc # "aborted"
       /\ ~lastCb.aborted
       /\ ~lastCb.accepted
       /\ lastCb.searched = <<>>
       /\ lastCb.qret = FALSE

\* C7: a query that reaches the lookup stores its own symbol, range and
\* qualifier, found or not; so the stored triple is that of the first
\* successful query of the file if there is one, and else that of the last
\* query that reached the lookup, with no candidates.
C7_PersistOnEveryAttempt ==
    (nfiles > 0 /\ pc # "aborted")
    => /\ lastCb.accepted
          => /\ QuerySymbol = lastCb.call.Query
             /\ QuerySymbolRange = lastCb.call.Range
             /\ SymbolScopedQualifiers = lastCb.call.Scope
       /\ firstSuccess # None
          => /\ QuerySymbol = firstSuccess.Query
             /\ QuerySymbolRange = firstSuccess.Range
             /\ SymbolScopedQualifiers = firstSuccess.Scope
             /\ MatchedSymbols # <<>>
       /\ (firstSuccess = None /\ lastAccepted # None)
          => /\ QuerySymbol = lastAccepted.Query
             /\ QuerySymbolRange = lastAccepted.Range
             /\ SymbolScopedQualifiers = lastAccepted.Scope
             /\ MatchedSymbols = <<>>
             /\ pc = "idle" => Context.SymbolCandidates = <<>>

C7_Witness ==
    /\ pc = "idle"
    /\ nfiles = 1
    /\ ncb = 2
    /\ firstSuccess = None
    /\ lastCb.accepted
    /\ lastCb.call.Query = <<"y">>
    /\ lastCb.call.Scope = <<"a", ":", ":">>
    /\ Context.QuerySymbol = <<"y">>
    /\ Context.SymbolCandidates = <<>>

\* C8 as claimed: the range of the final context is that of the reference
\* whose query first succeeded: for an unresolved identifier it starts where
\* the (qualified) name starts and is as long as the queried text; for an
\* incomplete type it is the range of the reported occurrence, and the
\* qualifier is empty.
C8_RangeOfFirstSuccess ==
    (pc = "idle" /\ firstSuccess # None)
    => /\ Context.QuerySymbolRange = Range(firstSuccess.loc, Len(firstSuccess.Query))
       /\ firstSuccess.kind = "type" => Context.SymbolScopedQualifiers = <<>>

\* C8 as amended: for an unresolved identifier as claimed; for an incomplete
\* type the range is the empty default range (offset 0, length 0) whatever
\* location was reported, and the qualifier is empty.
C8_RangeOfFirstSuccessAmended ==
    (pc = "idle" /\ firstSuccess # None)
    => /\ firstSuccess.kind = "typo"
          => Context.QuerySymbolRange
               = Range(firstSuccess.loc, Len(firstSuccess.Query))
       /\ firstSuccess.kind = "type"
          => /\ Context.QuerySymbolRange = EmptyRange
             /\ Context.SymbolScopedQualifiers = <<>>

C8_Witness ==
    /\ pc = "idle"
    /\ firstSuccess # None
    /\ firstSuccess.kind = "type"
    /\ firstSuccess.loc # 0
    /\ Context.QuerySymbol = <<"T">>
    /\ Context.SymbolCandidates # <<>>

\* C9: every file starts from an Action with empty MatchedSymbols: while a
\* file has had no successful query its Action is unresolved, whatever the
\* files before it found, and the context written for a file is the one its
\* own callbacks stand for.
C9_FreshActionPerFile ==
    /\ (pc = "parsing" /\ firstSuccess = None) => MatchedSymbols = <<>>
    /\ (pc = "idle" /\ nfiles > 0) => Context = ExpectedContext

C9_Witness ==
    /\ nfiles = 2
    /\ pc = "parsing"
    /\ Context.SymbolCandidates # <<>>
    /\ lastCb.accepted
    /\ lastCb.qret
    /\ MatchedSymbols # <<>>
    /\ QuerySymbol # Context.QuerySymbol

\* C10: runInvocation returns false exactly when a fatal error occurred, and
\* with or without one the context written is the one built from the state the
\* Action had accumulated when the parse ended.
C10_FatalErrorStillBuildsContext ==
    (pc = "idle" /\ nfiles > 0)
    => /\ ret = ~fatal
       /\ Context = getIncludeFixerContext

C10_Witness ==
    /\ pc = "idle"
    /\ nfiles = 1
    /\ fatal
    /\ ~ret
    /\ ncb = 1
    /\ Context.QuerySymbol = <<"a", ":", ":", "f", ":", ":", "g">>
    /\ Context.SymbolCandidates # <<>>


-----------------------------------------------------------------------------
(* The edit generator.                                                      *)

InsertHeaderRan == op = "createInsertHeaderReplacements"

\* The single insertion built from the arguments of the call.
UnitInsertion ==
    Replacement(arg.FilePath, UINT_MAX, 0,
                <<"#", "i", "n", "c", "l", "u", "d", "e", " ">> \o arg.Header
                    \o <<"\n">>)

\* What cleanup hands back when it succeeds on that insertion.
UnitCleaned == Replacement(arg.FilePath, arg.c.at, 0, UnitInsertion.Text)

\* C11: for a non-empty header, cleanup is called first, on the single
\* insertion; when cleanup fails its error is the result and formatting is
\* never called; when cleanup succeeds formatting is called on cleanup's
\* output and its error or value is the result; a failure carries no edits.
C11_CleanupThenFormatOrError ==
    (InsertHeaderRan /\ arg.Header # <<>>) =>
        /\ Len(consulted) >= 1
        /\ consulted[1] = Consult("cleanupAroundReplacements", arg.Code,
                                  {UnitInsertion}, arg.Style)
        /\ IF arg.c.fails
           THEN /\ Len(consulted) = 1
                /\ res = [ok |-> FALSE, error |-> arg.c.error]
           ELSE /\ Len(consulted) = 2
                /\ consulted[2] = Consult("formatReplacements", arg.Code,
                                          {UnitCleaned}, arg.Style)
                /\ IF arg.f.fails
                   THEN res = [ok |-> FALSE, error |-> arg.f.error]
                   ELSE res = [ok |-> TRUE,
                               value |-> {UnitCleaned} \cup arg.f.extra]
        /\ (~res.ok => DOMAIN res = {"ok", "error"})

\* Cleanup succeeded, formatting failed, and the call returned that error.
C11_Witness ==
    /\ InsertHeaderRan
    /\ arg.Header # <<>>
    /\ ~arg.c.fails
    /\ arg.f.fails
    /\ ~res.ok
    /\ Len(consulted) = 2

\* C12: for an empty header the result is a successful empty edit set and
\* neither cleanup nor formatting is called.
C12_EmptyHeaderNoEdits ==
    (InsertHeaderRan /\ arg.Header = <<>>) =>
        /\ res = [ok |-> TRUE, value |-> {}]
        /\ consulted = <<>>

\* An empty header given while cleanup would have failed.
C12_Witness ==
    InsertHeaderRan /\ arg.Header = <<>> /\ arg.c.fails /\ res.ok

-----------------------------------------------------------------------------
(* The context builder.                                                     *)

Delimiters == {"\"", "<", ">"}

\* A path between two double quotes or between '<' and '>'.
Wrapped(P) ==
    /\ Len(P) >= 2
    /\ \/ P[1] = "\"" /\ P[Len(P)] = "\""
       \/ P[1] = "<" /\ P[Len(P)] = ">"

Undelimited(P) == \A i \in 1..Len(P) : P[i] \notin Delimiters

DelimiterCount(P) == Cardinality({i \in 1..Len(P) : P[i] \in Delimiters})

\* C13: a stored path already between double quotes or angle brackets is
\* handed to minimizeInclude as it is; a path without any delimiter is
\* handed over between exactly one pair of double quotes.
C13_NoDoubleWrapping ==
    op = "getIncludeFixerContext" =>
        LET P == arg.Symbol.FilePath
            Passed == consulted[1].Include
        IN  /\ Wrapped(P) => Passed = P
            /\ Undelimited(P) =>
                   /\ Passed = <<"\"">> \o P \o <<"\"">>
                   /\ DelimiterCount(Passed) = 2

\* The stored path <v> was handed over as <v>.
C13_Witness ==
    /\ op = "getIncludeFixerContext"
    /\ arg.Symbol.FilePath = <<"<", "v", ">">>
    /\ consulted[1].Include = <<"<", "v", ">">>

\* C14: the context written at the end of a file has one candidate per
\* matched symbol, in the same order, each with the name, kind, line,
\* contexts and occurrence count of the symbol at the same position.
C14_OneCandidatePerSymbolInOrder ==
    (pc = "idle" /\ nfiles > 0) =>
        /\ Len(Context.SymbolCandidates) = Len(MatchedSymbols)
        /\ \A i \in 1..Len(MatchedSymbols) :
               /\ Context.SymbolCandidates[i].Name = MatchedSymbols[i].Name
               /\ Context.SymbolCandidates[i].Kind = MatchedSymbols[i].Kind
               /\ Context.SymbolCandidates[i].LineNumber
                      = MatchedSymbols[i].LineNumber
               /\ Context.SymbolCandidates[i].Contexts = MatchedSymbols[i].Contexts
               /\ Context.SymbolCandidates[i].NumOccurrences
                      = MatchedSymbols[i].NumOccurrences

\* Two symbols of different kinds were matched and the context holds both.
C14_Witness ==
    /\ pc = "idle"
    /\ nfiles > 0
    /\ Len(MatchedSymbols) = 2
    /\ MatchedSymbols[1].Kind # MatchedSymbols[2].Kind
    /\ Len(Context.SymbolCandidates) = 2

-----------------------------------------------------------------------------
(* The minimizer.                                                           *)

\* P without the delimiters at its two ends: the part from its first to its
\* last character that is not a delimiter.
Stripped(P) ==
    LET keep == {i \in 1..Len(P) : P[i] \notin Delimiters}
    IN  IF keep = {} THEN <<>>
        ELSE SubSeq(P, CHOOSE i \in keep : \A j \in keep : i <= j,
                       CHOOSE i \in keep : \A j \in keep : j <= i)

\* C15: minimizeInclude returns its argument when minimization is disabled,
\* without asking the file manager or the header search, and returns its
\* argument when the stripped path names no file.
C15_PassThroughWhenDisabledOrUnresolved ==
    op = "minimizeInclude" =>
        /\ ~MinimizeIncludePaths => (res = arg.Include /\ consulted = <<>>)
        /\ (MinimizeIncludePaths /\ getFile(Stripped(arg.Include)) = NoEntry)
               => res = arg.Include

\* Minimization disabled on a path that would have resolved and changed.
C15_Witness ==
    /\ op = "minimizeInclude"
    /\ ~MinimizeIncludePaths
    /\ arg.Include = <<"\"", "d", "/", "x", ".", "h", "\"">>
    /\ res = arg.Include

\* C16: with minimization enabled and a stripped path that names a file, the
\* result is the header search's suggestion for that file, between angle
\* brackets when it is a system header and between double quotes otherwise,
\* whatever delimiters the argument had; a symbol stored with the bare path
\* of a system header ends with that header between angle brackets.
C16_SuggestionWrappedBySystemness ==
    /\ (/\ op = "minimizeInclude"
        /\ MinimizeIncludePaths
        /\ getFile(Stripped(arg.Include)) # NoEntry) =>
           LET S == suggestPathToFileForDiagnostics(getFile(Stripped(arg.Include)))
           IN  res = IF S.IsSystem THEN <<"<">> \o S.Suggestion \o <<">">>
                     ELSE <<"\"">> \o S.Suggestion \o <<"\"">>
    /\ (/\ op = "getIncludeFixerContext"
        /\ MinimizeIncludePaths
        /\ arg.Symbol.FilePath = <<"v">>) => res.FilePath = <<"<", "v", ">">>

\* A system header given between double quotes came back between angle
\* brackets.
C16_Witness ==
    /\ op = "minimizeInclude"
    /\ MinimizeIncludePaths
    /\ arg.Include = <<"\"", "v", "\"">>
    /\ res = <<"<", "v", ">">>

-----------------------------------------------------------------------------
(* The scope qualifier.                                                     *)

\* name:: for the named namespaces among the first n entries of chain, the
\* entry furthest from the reference first.
RECURSIVE OutermostFirst(_, _)
OutermostFirst(chain, n) ==
    IF n = 0 THEN <<>>
    ELSE OutermostFirst(SubSeq(chain, 2, Len(chain)), n - 1)
             \o (IF chain[1].isNamespace /\ chain[1].name # <<>>
                 THEN chain[1].name \o <<":", ":">> ELSE <<>>)

EndsWithColonColon(q) ==
    Len(q) >= 2 /\ q[Len(q) - 1] = ":" /\ q[Len(q)] = ":"

\* C17: the qualifier an unresolved-identifier callback passes to the query
\* is name:: for each named namespace of the enclosing scope chain, outermost
\* first, and nothing for anonymous namespaces and other scopes; the stored
\* qualifier, in the Action and in the context, is empty or ends with "::".
C17_QualifierOutermostFirst ==
    /\ (lastCb.kind = "typo" /\ lastCb.called) =>
           lastCb.call.Scope = OutermostFirst(lastS.chain, Len(lastS.chain))
    /\ SymbolScopedQualifiers = <<>> \/ EndsWithColonColon(SymbolScopedQualifiers)
    /\ Context.SymbolScopedQualifiers = <<>>
           \/ EndsWithColonColon(Context.SymbolScopedQualifiers)

\* A reference inside namespace a { namespace b { ... } } was queried with
\* a::b:: and that qualifier is stored.
C17_Witness ==
    /\ lastCb.kind = "typo"
    /\ lastCb.called
    /\ Len(lastS.chain) = 3
    /\ lastS.chain[1].name = <<"b">>
    /\ lastCb.call.Scope = <<"a", ":", ":", "b", ":", ":">>
    /\ SymbolScopedQualifiers = <<"a", ":", ":", "b", ":", ":">>

-----------------------------------------------------------------------------
(* The query text of a qualified name.                                      *)

\* The least offset from off on whose character is not in chars.
FirstNotIn(off, chars) ==
    CHOOSE e \in off..(Len(buf) - 1) :
        /\ buf[e + 1] \notin chars
        /\ \A d \in off..(e - 1) : buf[d + 1] \in chars

\* Where the extension has to stop: the first character after the token at
\* tokLoc that is neither an identifier character nor a colon.
ExtensionStop(tokLoc) ==
    FirstNotIn(FirstNotIn(tokLoc, IdentChars), IdentChars \cup {":"})

\* C18: for a reference with a nested-name-specifier the call returns the
\* text from the qualifier's start up to the first character, after the
\* identifier, that is neither an identifier character nor a colon; every
\* character it reads lies in the source buffer.
C18_ExtendedOverMaximalRun ==
    op = "ExtendNestedNameSpecifier" =>
        /\ ~res.crashed
        /\ res.text = SubSeq(buf, arg.begin + 1, ExtensionStop(arg.tokLoc))
        /\ \A i \in 1..Len(consulted) :
               /\ consulted[i].inBuffer
               /\ consulted[i].off \in 0..(Len(buf) - 1)

\* The same, for the calls whose range getSourceText could map to file text.
C18_MappedRangeExtended ==
    (op = "ExtendNestedNameSpecifier" /\ arg.mapped) =>
        /\ ~res.crashed
        /\ res.text = SubSeq(buf, arg.begin + 1, ExtensionStop(arg.tokLoc))
        /\ \A i \in 1..Len(consulted) :
               /\ consulted[i].inBuffer
               /\ consulted[i].off \in 0..(Len(buf) - 1)

-----------------------------------------------------------------------------
(* Candidates and stored query.                                             *)

\* C19: whenever MatchedSymbols is not empty it is what the index holds for
\* the stored qualifier followed by the stored symbol when that is not
\* empty, and what it holds for the stored symbol alone otherwise; and the
\* stored symbol, qualifier and range are those of the query that found it.
C19_CandidatesOfStoredQuery ==
    MatchedSymbols # <<>> =>
        /\ MatchedSymbols =
               IF search(SymbolScopedQualifiers \o QuerySymbol) # <<>>
               THEN search(SymbolScopedQualifiers \o QuerySymbol)
               ELSE search(QuerySymbol)
        /\ firstSuccess # None
        /\ firstSuccess.Query = QuerySymbol
        /\ firstSuccess.Scope = SymbolScopedQualifiers
        /\ firstSuccess.Range = QuerySymbolRange

\* x was looked up inside namespace a while the index holds a::x and two
\* unqualified x: only a::x is matched.
C19_Witness ==
    /\ QuerySymbol = <<"x">>
    /\ SymbolScopedQualifiers = <<"a", ":", ":">>
    /\ search(<<"x">>) # <<>>
    /\ Len(MatchedSymbols) = 1
    /\ MatchedSymbols[1].Contexts = << <<"a">> >>

====
